---- MODULE Spec2Model ----
(***************************************************************************)
(* Model of the collection agent of src/financial_agent.py: the            *)
(* PolicyEngine (pure eligibility rules), the ToolRegistry (named handlers  *)
(* bound to one customer) and FinancialAgent.sense_plan_act (the           *)
(* sense -> plan -> act loop around the external responder).               *)
(*                                                                         *)
(* Units: amount_due is held in cents (1000.00 is 100000) and risk_score    *)
(* in hundredths (0.65 is 65), so that the comparisons of the source are    *)
(* exact integer comparisons.                                              *)
(***************************************************************************)
EXTENDS Integers, Sequences, FiniteSets, TLC

VARIABLES
    customer,               \* the CustomerProfile the agent is bound to
    conversation_history,   \* FinancialAgent.conversation_history
    log,                    \* ConversationLogger.log
    pc,                     \* position inside sense_plan_act
    tool_calls,             \* the tool calls returned by responder call #1
    idx,                    \* loop index of `for tool_call in tool_calls`
    agent_response,         \* local agent_response of sense_plan_act
    llm_request,            \* the request of the latest responder call
    llm_calls,              \* responder calls issued in the current turn
    llm_failed,             \* per responder call of the current turn: did it fail
    llm_replies,            \* per responder call of the current turn: what _call_llm returned
    dispatched,             \* handler invocations made in the current turn
    arg_user_input,         \* the user_input the current call of sense_plan_act was given
    turn_base,              \* Len(conversation_history) when the turn was entered
    turns,                  \* calls of sense_plan_act made on this agent
    requested,              \* tool calls the responder has requested so far
    returned,               \* value returned by the latest completed turn
    policy_out,             \* latest direct PolicyEngine evaluation
    evaluations,            \* per PolicyEngine function: <<profile, result>> of each evaluation made
    files,                  \* transcript records written by save_to_file
    saves,                  \* calls of save_conversation made
    session,                \* run_conversation: position, locals, return value
    st                      \* the front end's st.session_state

vars == <<customer, conversation_history, log, pc, tool_calls, idx,
          agent_response, llm_request, llm_calls, llm_failed, llm_replies, dispatched,
          arg_user_input, turn_base, turns, requested, returned, policy_out,
          evaluations, files, saves, session, st>>

-----------------------------------------------------------------------------
(* Bounds of the model *)

\* Most calls of sense_plan_act made on one agent.
MaxTurns == 2

\* Most tool calls the responder puts in one completion.
MaxToolCalls == 2

\* Most tool calls the responder requests over the turns of one agent.
MaxRequested == 2

\* Python's None where a string is expected (user_input, the returned text)
None == "None"

\* Optional[Dict]: None is the empty sequence, a value the one-element sequence
Absent == <<>>
Some(x) == <<x>>

-----------------------------------------------------------------------------
(* CustomerProfile *)

PaymentHistories == {"good", "average", "poor", "excellent"}

Profile(id, amount, days, history, risk, consent) ==
    [id |-> id, name |-> "Customer " \o id, amount_due |-> amount,
     days_late |-> days, payment_history |-> history, risk_score |-> risk,
     consent_to_store_transcript |-> consent,
     transcript_retention_days |-> 30]

-----------------------------------------------------------------------------
(* String formatting used by the reason fragments *)

TwoDigits(n) == IF n < 10 THEN "0" \o ToString(n) ELSE ToString(n)

\* f"{x:.2f}" of a value held in hundredths
Fmt2f(h) == ToString(h \div 100) \o "." \o TwoDigits(h % 100)

RECURSIVE Join(_, _)
Join(sep, parts) ==
    IF Len(parts) = 0 THEN ""
    ELSE IF Len(parts) = 1 THEN parts[1]
    ELSE parts[1] \o sep \o Join(sep, Tail(parts))

-----------------------------------------------------------------------------
(* PolicyEngine *)

PLAN_MAX_AMOUNT == 100000
PLAN_MAX_DAYS_LATE == 30
PLAN_MAX_RISK == 65
SETTLEMENT_MAX_DAYS_LATE == 15
SETTLEMENT_MAX_RISK == 30

\* PlanReasons returning at the first condition that fails
PlanReasons_FirstOnly(c) ==
    IF c.amount_due > PLAN_MAX_AMOUNT
    THEN <<"balance exceeds EUR1,000 (current: EUR" \o Fmt2f(c.amount_due) \o ")">>
    ELSE IF c.days_late > PLAN_MAX_DAYS_LATE
    THEN <<"payment is overdue by more than 30 days (current: "
           \o ToString(c.days_late) \o " days)">>
    ELSE IF c.payment_history = "poor"
    THEN <<"payment history is classified as poor">>
    ELSE IF c.risk_score > PLAN_MAX_RISK
    THEN <<"risk score is too high (current: " \o Fmt2f(c.risk_score) \o ")">>
    ELSE <<>>

\* PlanReasons with the balance test written >= instead of >
PlanReasons_AmountInclusive(c) ==
    (IF c.amount_due >= PLAN_MAX_AMOUNT
       THEN <<"balance exceeds EUR1,000 (current: EUR" \o Fmt2f(c.amount_due) \o ")">>
       ELSE <<>>)
    \o (IF c.days_late > PLAN_MAX_DAYS_LATE
       THEN <<"payment is overdue by more than 30 days (current: "
              \o ToString(c.days_late) \o " days)">>
       ELSE <<>>)
    \o (IF c.payment_history = "poor"
       THEN <<"payment history is classified as poor">>
       ELSE <<>>)
    \o (IF c.risk_score > PLAN_MAX_RISK
       THEN <<"risk score is too high (current: " \o Fmt2f(c.risk_score) \o ")">>
       ELSE <<>>)

PlanReasons(c) ==
    (IF c.amount_due > PLAN_MAX_AMOUNT
       THEN <<"balance exceeds EUR1,000 (current: EUR" \o Fmt2f(c.amount_due) \o ")">>
       ELSE <<>>)
    \o (IF c.days_late > PLAN_MAX_DAYS_LATE
       THEN <<"payment is overdue by more than 30 days (current: "
              \o ToString(c.days_late) \o " days)">>
       ELSE <<>>)
    \o (IF c.payment_history = "poor"
       THEN <<"payment history is classified as poor">>
       ELSE <<>>)
    \o (IF c.risk_score > PLAN_MAX_RISK
       THEN <<"risk score is too high (current: " \o Fmt2f(c.risk_score) \o ")">>
       ELSE <<>>)

check_payment_plan_eligibility(c) ==
    LET reasons == PlanReasons(c)
    IN  IF Len(reasons) > 0
        THEN <<FALSE, Join(" and ", reasons)>>
        ELSE <<TRUE, "all eligibility criteria are met">>

\* SettlementReasons with the history test written = 'poor' instead of != 'good'
SettlementReasons_OnlyPoor(c) ==
    (IF c.days_late > SETTLEMENT_MAX_DAYS_LATE
       THEN <<"payment is overdue by more than 15 days (current: "
              \o ToString(c.days_late) \o " days)">>
       ELSE <<>>)
    \o (IF c.payment_history = "poor"
       THEN <<"payment history must be 'good'">>
       ELSE <<>>)
    \o (IF c.risk_score > SETTLEMENT_MAX_RISK
       THEN <<"risk score exceeds 0.30 (current: " \o Fmt2f(c.risk_score) \o ")">>
       ELSE <<>>)

SettlementReasons(c) ==
    (IF c.days_late > SETTLEMENT_MAX_DAYS_LATE
       THEN <<"payment is overdue by more than 15 days (current: "
              \o ToString(c.days_late) \o " days)">>
       ELSE <<>>)
    \o (IF c.payment_history # "good"
       THEN <<"payment history must be 'good'">>
       ELSE <<>>)
    \o (IF c.risk_score > SETTLEMENT_MAX_RISK
       THEN <<"risk score exceeds 0.30 (current: " \o Fmt2f(c.risk_score) \o ")">>
       ELSE <<>>)

check_immediate_settlement_discount(c) ==
    LET reasons == SettlementReasons(c)
    IN  IF Len(reasons) > 0
        THEN <<FALSE, Join(" and ", reasons)>>
        ELSE <<TRUE, "all criteria for settlement discount are met">>

\* RoundDiv cutting the fraction off instead of rounding
RoundDiv_Floor(n, d, tie_up) == n \div d

\* round(x, 2) on the float x = n / d cents: the nearest cent; when n / d is an
\* exact half cent the double the code computed lies just below, on or just
\* above the half, and tie_up says whether round() returns the upper cent
RoundDiv(n, d, tie_up) ==
    LET q == n \div d
        r == n % d
    IN  IF 2 * r > d \/ (2 * r = d /\ tie_up) THEN q + 1 ELSE q

\* The half-cent amounts among the profiles below for which the double
\* amount_due / installments rounds to the upper cent (300.14 / 4 gives 75.03,
\* 500.10 / 4 gives 125.03, 600.09 / 6 gives 100.02)
MonthlyTiesUp == {50010, 60009}

\* The same for amount_due * 0.05 (2.50 gives 0.12, 500.10 gives 25.01,
\* 600.30 gives 30.02)
DiscountTiesUp == {50010, 60030}

\* The same for amount_due - amount_due * 0.05 (2.50 gives 2.38, 500.10 gives
\* 475.10, 600.30 gives 570.28)
FinalTiesUp == {250, 50010}

\* calculate_payment_plan_terms without the eligibility test
calculate_payment_plan_terms_Unchecked(c) ==
    LET installments == IF c.amount_due <= 30000 THEN 3
                        ELSE IF c.amount_due <= 60000 THEN 4
                        ELSE 6
    IN  Some([installments |-> installments,
              monthly_payment |-> RoundDiv(c.amount_due, installments,
                                                c.amount_due \in MonthlyTiesUp),
              total_amount |-> c.amount_due])

calculate_payment_plan_terms(c) ==
    LET eligible == check_payment_plan_eligibility(c)[1]
        installments == IF c.amount_due <= 30000 THEN 3
                        ELSE IF c.amount_due <= 60000 THEN 4
                        ELSE 6
    IN  IF ~eligible THEN Absent
        ELSE Some([installments |-> installments,
                   monthly_payment |-> RoundDiv(c.amount_due, installments,
                                                c.amount_due \in MonthlyTiesUp),
                   total_amount |-> c.amount_due])

calculate_settlement_discount(c) ==
    LET eligible == check_immediate_settlement_discount(c)[1]
    IN  IF ~eligible THEN Absent
        ELSE Some([original_amount |-> c.amount_due,
                   discount_rate |-> 5,
                   discount_amount |-> RoundDiv(c.amount_due * 5, 100, c.amount_due \in DiscountTiesUp),
                   final_amount |-> RoundDiv(c.amount_due * 100 - c.amount_due * 5, 100,
                                             c.amount_due \in FinalTiesUp)])

-----------------------------------------------------------------------------
(* ToolRegistry *)

\* keys of ToolRegistry.tools
RegisteredTools ==
    {"check_payment_plan_eligibility", "get_payment_plan_options",
     "check_settlement_discount_eligibility", "get_settlement_discount_details",
     "escalate_to_human", "log_customer_question"}

\* parameter names of each handler's signature (self excluded)
ToolParams(name) ==
    CASE name = "escalate_to_human" -> {"reason"}
      [] name = "log_customer_question" -> {"question"}
      [] OTHER -> {}

\* value of key k in a parsed JSON object (a set of <<key, value>> members)
Get(members, k) == (CHOOSE m \in members : m[1] = k)[2]

tool_check_payment_plan_eligibility(c) ==
    LET r == check_payment_plan_eligibility(c)
    IN  [eligible |-> r[1], reason |-> r[2], customer_id |-> c.id]

\* get_payment_plan_options handing out terms without looking at the result
tool_get_payment_plan_options_AlwaysTerms(c) ==
    [available |-> TRUE, terms |-> calculate_payment_plan_terms_Unchecked(c)[1]]

tool_get_payment_plan_options(c) ==
    LET terms == calculate_payment_plan_terms(c)
    IN  IF terms = Absent
        THEN [available |-> FALSE,
              reason |-> "Not eligible because " \o check_payment_plan_eligibility(c)[2]]
        ELSE [available |-> TRUE, terms |-> terms[1]]

tool_check_settlement_discount_eligibility(c) ==
    LET r == check_immediate_settlement_discount(c)
    IN  [eligible |-> r[1], reason |-> r[2], customer_id |-> c.id]

tool_get_settlement_discount_details(c) ==
    LET discount == calculate_settlement_discount(c)
    IN  IF discount = Absent
        THEN [available |-> FALSE,
              reason |-> "Not eligible because " \o check_immediate_settlement_discount(c)[2]]
        ELSE [available |-> TRUE, discount |-> discount[1]]

\* datetime.now().isoformat() is abstracted to one token
tool_escalate_to_human(c, reason) ==
    [escalated |-> TRUE, reason |-> reason, customer_id |-> c.id, timestamp |-> "now"]

tool_log_customer_question(c, question) ==
    [logged |-> TRUE, question |-> question, customer_id |-> c.id]

\* the evaluations made so far and one more, of fn on profile c
Evaluated(evs, fn, c, result) == [evs EXCEPT ![fn] = @ \cup {<<c, result>>}]

\* the evaluations made so far and those the handler `name` makes on self.customer
ToolEvaluations(evs, c, name) ==
    CASE name = "check_payment_plan_eligibility" ->
            Evaluated(evs, "check_payment_plan_eligibility", c,
                      check_payment_plan_eligibility(c))
      [] name = "get_payment_plan_options" ->
            LET terms == calculate_payment_plan_terms(c)
                evs1 == Evaluated(evs, "calculate_payment_plan_terms", c, terms)
            IN  IF terms = Absent
                THEN Evaluated(evs1, "check_payment_plan_eligibility", c,
                               check_payment_plan_eligibility(c))
                ELSE evs1
      [] name = "check_settlement_discount_eligibility" ->
            Evaluated(evs, "check_immediate_settlement_discount", c,
                      check_immediate_settlement_discount(c))
      [] name = "get_settlement_discount_details" ->
            LET discount == calculate_settlement_discount(c)
                evs1 == Evaluated(evs, "calculate_settlement_discount", c, discount)
            IN  IF discount = Absent
                THEN Evaluated(evs1, "check_immediate_settlement_discount", c,
                               check_immediate_settlement_discount(c))
                ELSE evs1
      [] OTHER -> evs

\* self.tools.tools[name](**members), for members whose keys are ToolParams(name)
RunTool(c, name, members) ==
    CASE name = "check_payment_plan_eligibility" -> tool_check_payment_plan_eligibility(c)
      [] name = "get_payment_plan_options" -> tool_get_payment_plan_options(c)
      [] name = "check_settlement_discount_eligibility" -> tool_check_settlement_discount_eligibility(c)
      [] name = "get_settlement_discount_details" -> tool_get_settlement_discount_details(c)
      [] name = "escalate_to_human" -> tool_escalate_to_human(c, Get(members, "reason"))
      [] name = "log_customer_question" -> tool_log_customer_question(c, Get(members, "question"))

-----------------------------------------------------------------------------
(* json.loads / json.dumps on the payloads the responder and the tools use *)

EmptyObject == [raises |-> FALSE, kind |-> "object", members |-> {}]

\* json.loads(text): a JSONDecodeError, or the parsed value (an object is the
\* set of its <<key, value>> members)
JsonLoads(text) ==
    CASE text = "{}" -> EmptyObject
      [] text = "{\"reason\": \"hardship\"}" ->
            [raises |-> FALSE, kind |-> "object", members |-> {<<"reason", "hardship">>}]
      [] text = "{\"question\": \"why\"}" ->
            [raises |-> FALSE, kind |-> "object", members |-> {<<"question", "why">>}]
      [] text = "[]" -> [raises |-> FALSE, kind |-> "array", members |-> {}]
      [] OTHER -> [raises |-> TRUE, kind |-> "error", members |-> {}]

\* json.dumps(result): the serialised payload, kept as a tagged value
JsonDumps(result) == <<"json", result>>

-----------------------------------------------------------------------------
(* The responder (external): what one completion request can come back with *)

\* message.content: a text, or None
RawContents == {None, "I will Transfer you to a human agent."}

ErrorTexts == {"Connection error."}

CallIds == {"call_1", "call_2"}

\* <<name, arguments>> of the tool calls the responder is taken to request:
\* well-formed calls, binding failures, a malformed payload, and a name
\* outside the registry.
RequestedCalls ==
    {<<"check_payment_plan_eligibility", "{}">>,
     <<"get_settlement_discount_details", "">>,
     <<"escalate_to_human", "{\"reason\": \"hardship\"}">>,
     <<"escalate_to_human", "{}">>,
     <<"log_customer_question", "{\"question\": \"why\"}">>,
     <<"get_payment_plan_options", "{\"reason\": \"hardship\"}">>,
     <<"check_settlement_discount_eligibility", "[]">>,
     <<"waive_balance", "{}">>,
     <<"waive_balance", "{\"reason\": ">>}

ToolCallChoices ==
    {[id |-> i, name |-> p[1], arguments |-> p[2]] : i \in CallIds, p \in RequestedCalls}

ToolCallLists == UNION {[1..k -> ToolCallChoices] : k \in 0..MaxToolCalls}

\* The calls requested where several turns are explored: one that succeeds
\* (under either identifier), one whose binding fails, one outside the
\* registry.
SessionCalls ==
    {[id |-> "call_1", name |-> "check_payment_plan_eligibility", arguments |-> "{}"],
     [id |-> "call_2", name |-> "check_payment_plan_eligibility", arguments |-> "{}"],
     [id |-> "call_1", name |-> "escalate_to_human", arguments |-> "{}"],
     [id |-> "call_1", name |-> "waive_balance", arguments |-> "{}"]}

\* the lists of at most n of them (and at most MaxToolCalls)
SessionToolCallLists(n) ==
    UNION {[1..k -> SessionCalls] : k \in 0..(IF n < MaxToolCalls THEN n ELSE MaxToolCalls)}

\* A completion: the create() call raises, or it yields a message whose tool
\* calls are one of `lists` (with tools not advertised, none).
ResponderOutcomes(lists) ==
    {[fails |-> TRUE, error |-> e, content |-> None, tool_calls |-> <<>>] : e \in ErrorTexts}
    \cup {[fails |-> FALSE, error |-> "", content |-> c, tool_calls |-> t] :
             c \in RawContents, t \in lists}

-----------------------------------------------------------------------------
(* FinancialAgent *)

\* _get_available_tools_schema: the function names of the schema entries
get_available_tools_schema ==
    {"check_payment_plan_eligibility", "get_payment_plan_options",
     "check_settlement_discount_eligibility", "get_settlement_discount_details",
     "escalate_to_human"}

SystemPrompt(c) == [role |-> "system", content |-> "system prompt of " \o c.id]

\* _call_llm: <<content, tool_calls>>; every exception of the completion
\* becomes an error text with no tool calls (None and [] are both falsy and
\* both held as <<>>)
CallLLM(o) ==
    IF o.fails
    THEN <<"Error calling LLM: " \o o.error, <<>>>>
    ELSE <<IF o.content = None THEN "" ELSE o.content, o.tool_calls>>

\* add_message keeping the customer's messages only
add_message_CustomerOnly(c, lg, role, content) ==
    IF c.consent_to_store_transcript /\ role = "customer"
    THEN Append(lg, [role |-> role, content |-> content])
    ELSE lg

\* ConversationLogger.add_message (the timestamp field is left out)
add_message(c, lg, role, content) ==
    IF c.consent_to_store_transcript
    THEN Append(lg, [role |-> role, content |-> content])
    ELSE lg

Truthy(text) == text # None /\ text # ""

UserTurn(text) == [role |-> "user", content |-> text]

AgentTextTurn(text) == [role |-> "assistant", content |-> text]

AgentCallsTurn(text, tcs) ==
    [role |-> "assistant", content |-> text,
     tool_calls |-> [i \in 1..Len(tcs) |->
                        [id |-> tcs[i].id, type |-> "function",
                         function |-> [name |-> tcs[i].name,
                                       arguments |-> tcs[i].arguments]]]]

\* ToolTurn correlated by the tool's name instead of the call's identifier
ToolTurn_NameAsId(tc, result) ==
    [role |-> "tool", tool_call_id |-> tc.name, name |-> tc.name,
     content |-> JsonDumps(result)]

ToolTurn(tc, result) ==
    [role |-> "tool", tool_call_id |-> tc.id, name |-> tc.name,
     content |-> JsonDumps(result)]

Messages(c, history) == <<SystemPrompt(c)>> \o history

\* **function_args against the handler's signature: a TypeError when the
\* parsed value is no mapping, a parameter is missing, or a key is unexpected
BindingFails(name, parsed) ==
    \/ parsed.kind # "object"
    \/ {m[1] : m \in parsed.members} # ToolParams(name)

\* One iteration of `for tool_call in tool_calls`: the exception it raises,
\* the tool turn it appends, or nothing for a name outside the registry.
DispatchOutcome(c, tc) ==
    LET parsed == IF tc.arguments # "" THEN JsonLoads(tc.arguments) ELSE EmptyObject
    IN  IF parsed.raises THEN [kind |-> "raise", error |-> "JSONDecodeError"]
        ELSE IF tc.name \in RegisteredTools
             THEN IF BindingFails(tc.name, parsed)
                  THEN [kind |-> "raise", error |-> "TypeError"]
                  ELSE [kind |-> "result",
                        turn |-> ToolTurn(tc, RunTool(c, tc.name, parsed.members))]
             ELSE [kind |-> "skip"]

UserInputs == {None, "", "I cannot pay this month."}

\* sense_plan_act, entry to the first responder call
SensePlanAct(user_input) ==
    /\ pc \in {"idle", "raised"}
    /\ turns' = turns + 1
    /\ LET history == IF Truthy(user_input)
                      THEN Append(conversation_history, UserTurn(user_input))
                      ELSE conversation_history
       IN  /\ conversation_history' = history
           /\ llm_request' = [messages |-> Messages(customer, history), use_tools |-> TRUE,
                            tools |-> get_available_tools_schema]
    /\ log' = IF Truthy(user_input) THEN add_message(customer, log, "customer", user_input)
              ELSE log
    /\ arg_user_input' = user_input
    /\ turn_base' = Len(conversation_history)
    /\ llm_calls' = 1
    /\ llm_failed' = <<>>
    /\ llm_replies' = <<>>
    /\ dispatched' = 0
    /\ tool_calls' = <<>>
    /\ idx' = 0
    /\ agent_response' = None
    /\ returned' = None
    /\ pc' = "plan"
    /\ UNCHANGED <<customer, requested, policy_out, evaluations, files, saves>>

\* the tail of sense_plan_act: the final agent turn, the log entry, the return
Finish(text) ==
    /\ conversation_history' = Append(conversation_history, AgentTextTurn(text))
    /\ log' = add_message(customer, log, "agent", text)
    /\ agent_response' = text
    /\ returned' = text
    /\ pc' = "idle"

\* PlanReturnFrom with _call_llm's except clause left out: the exception of a
\* failed completion leaves sense_plan_act
PlanReturnFrom_Uncaught(lists) ==
    /\ pc = "plan"
    /\ \E o \in ResponderOutcomes(lists) :
         LET r == CallLLM(o)
         IN  /\ requested' = requested + Len(o.tool_calls)
             /\ llm_failed' = Append(llm_failed, o.fails)
             /\ llm_replies' = Append(llm_replies, r)
             /\ IF o.fails
                THEN /\ pc' = "raised"
                     /\ UNCHANGED <<conversation_history, tool_calls, idx,
                                    agent_response, log, returned>>
                ELSE IF r[2] # <<>>
                THEN /\ conversation_history' =
                            Append(conversation_history, AgentCallsTurn(r[1], r[2]))
                     /\ tool_calls' = r[2]
                     /\ idx' = 1
                     /\ agent_response' = r[1]
                     /\ pc' = "dispatch"
                     /\ UNCHANGED <<log, returned>>
                ELSE /\ Finish(r[1])
                     /\ UNCHANGED <<tool_calls, idx>>
    /\ UNCHANGED <<customer, llm_request, llm_calls, dispatched, turn_base, arg_user_input, turns,
                   policy_out,
                   evaluations, files, saves, session, st>>

\* the first responder call returns: the pending-calls turn, or the final turn
PlanReturnFrom(lists) ==
    /\ pc = "plan"
    /\ \E o \in ResponderOutcomes(lists) :
         LET r == CallLLM(o)
         IN  /\ requested' = requested + Len(o.tool_calls)
             /\ llm_failed' = Append(llm_failed, o.fails)
             /\ llm_replies' = Append(llm_replies, r)
             /\ IF r[2] # <<>>
                THEN /\ conversation_history' =
                            Append(conversation_history, AgentCallsTurn(r[1], r[2]))
                     /\ tool_calls' = r[2]
                     /\ idx' = 1
                     /\ agent_response' = r[1]
                     /\ pc' = "dispatch"
                     /\ UNCHANGED <<log, returned>>
                ELSE /\ Finish(r[1])
                     /\ UNCHANGED <<tool_calls, idx>>
    /\ UNCHANGED <<customer, llm_request, llm_calls, dispatched, turn_base, arg_user_input, turns,
                   policy_out,
                   evaluations, files, saves, session, st>>

PlanReturn == PlanReturnFrom(SessionToolCallLists(MaxRequested - requested))

\* one iteration of the dispatch loop
DispatchToolCall ==
    /\ pc = "dispatch"
    /\ idx <= Len(tool_calls)
    /\ LET out == DispatchOutcome(customer, tool_calls[idx])
       IN  CASE out.kind = "raise" ->
                  /\ pc' = "raised"
                  /\ UNCHANGED <<conversation_history, idx, dispatched, evaluations>>
             [] out.kind = "result" ->
                  /\ conversation_history' = Append(conversation_history, out.turn)
                  /\ evaluations' = ToolEvaluations(evaluations, customer,
                                                    tool_calls[idx].name)
                  /\ dispatched' = dispatched + 1
                  /\ idx' = idx + 1
                  /\ pc' = pc
             [] out.kind = "skip" ->
                  /\ idx' = idx + 1
                  /\ UNCHANGED <<conversation_history, dispatched, pc, evaluations>>
    /\ UNCHANGED <<customer, log, tool_calls, agent_response, llm_request, llm_calls,
                   llm_failed, llm_replies, turn_base, arg_user_input, turns, requested, returned, policy_out,
                   files, saves, session, st>>

\* Respond issued one iteration early, before the last call is dispatched
Respond_BeforeLastDispatch ==
    /\ pc = "dispatch"
    /\ idx >= Len(tool_calls)
    /\ llm_request' = [messages |-> Messages(customer, conversation_history),
                       use_tools |-> FALSE, tools |-> {}]
    /\ llm_calls' = llm_calls + 1
    /\ pc' = "respond"
    /\ UNCHANGED <<customer, conversation_history, log, tool_calls, idx, agent_response,
                   llm_failed, llm_replies, dispatched, turn_base, arg_user_input, turns, requested, returned,
                   policy_out,
                   evaluations, files, saves, session, st>>

\* the loop is over: the second responder call is issued, tools not advertised
Respond ==
    /\ pc = "dispatch"
    /\ idx > Len(tool_calls)
    /\ llm_request' = [messages |-> Messages(customer, conversation_history),
                       use_tools |-> FALSE, tools |-> {}]
    /\ llm_calls' = llm_calls + 1
    /\ pc' = "respond"
    /\ UNCHANGED <<customer, conversation_history, log, tool_calls, idx, agent_response,
                   llm_failed, llm_replies, dispatched, turn_base, arg_user_input, turns, requested, returned,
                   policy_out,
                   evaluations, files, saves, session, st>>

\* RespondReturn answering with the text of the first responder call
RespondReturn_KeepsFirst ==
    /\ pc = "respond"
    /\ \E o \in ResponderOutcomes({<<>>}) :
         /\ llm_failed' = Append(llm_failed, o.fails)
         /\ llm_replies' = Append(llm_replies, CallLLM(o))
         /\ Finish(agent_response)
    /\ UNCHANGED <<customer, tool_calls, idx, llm_request, llm_calls, dispatched,
                   turn_base, arg_user_input, turns, requested, policy_out,
                   evaluations, files, saves, session, st>>

\* the second responder call returns: the final turn
RespondReturn ==
    /\ pc = "respond"
    /\ \E o \in ResponderOutcomes({<<>>}) :
         /\ llm_failed' = Append(llm_failed, o.fails)
         /\ llm_replies' = Append(llm_replies, CallLLM(o))
         /\ Finish(CallLLM(o)[1])
    /\ UNCHANGED <<customer, tool_calls, idx, llm_request, llm_calls, dispatched,
                   turn_base, arg_user_input, turns, requested, policy_out,
                   evaluations, files, saves, session, st>>

-----------------------------------------------------------------------------
(* The agent bound to one customer, driven through any sequence of turns *)

Customers ==
    {Profile("C001", 50000, 10, "good", 20, TRUE),
     Profile("C002", 120000, 45, "poor", 80, FALSE)}

NoRequest == [messages |-> <<>>, use_tools |-> FALSE, tools |-> {}]

NoEvaluation == [fn |-> "none", result |-> <<>>]

PolicyFunctions ==
    {"check_payment_plan_eligibility", "check_immediate_settlement_discount",
     "calculate_payment_plan_terms", "calculate_settlement_discount"}

NoEvaluations == [f \in PolicyFunctions |-> {}]

\* run_conversation not entered
NoSession ==
    [pc |-> "none", max_turns |-> 0, turn_count |-> 0, reads |-> 0, processed |-> 0,
     escalated |-> FALSE, path |-> "", result |-> None]

\* st.session_state as the script first sets it
NoFrontEnd ==
    [agent |-> 0, conversation_started |-> FALSE, messages |-> <<>>, handler |-> "none"]

InitAgent ==
    /\ conversation_history = <<>>
    /\ log = <<>>
    /\ pc = "idle"
    /\ tool_calls = <<>>
    /\ idx = 0
    /\ agent_response = None
    /\ llm_request = NoRequest
    /\ llm_calls = 0
    /\ llm_failed = <<>>
    /\ llm_replies = <<>>
    /\ dispatched = 0
    /\ arg_user_input = None
    /\ turn_base = 0
    /\ turns = 0
    /\ requested = 0
    /\ returned = None
    /\ policy_out = NoEvaluation
    /\ evaluations = NoEvaluations
    /\ files = <<>>
    /\ saves = 0
    /\ session = NoSession

Init ==
    /\ customer \in Customers
    /\ InitAgent
    /\ st = NoFrontEnd

\* a caller of the agent makes one more call of sense_plan_act
AgentTurn(user_input) ==
    /\ turns < MaxTurns
    /\ SensePlanAct(user_input)
    /\ UNCHANGED <<session, st>>

Next ==
    \/ \E u \in UserInputs : AgentTurn(u)
    \/ PlanReturn
    \/ DispatchToolCall
    \/ Respond
    \/ RespondReturn

Spec == Init /\ [][Next]_vars

-----------------------------------------------------------------------------
(* One call of sense_plan_act on a fresh agent, over the wider set of calls *)

TurnStart(user_input) ==
    /\ turns = 0
    /\ SensePlanAct(user_input)
    /\ UNCHANGED <<session, st>>

TurnPlanReturn == PlanReturnFrom(ToolCallLists)

TurnNext ==
    \/ \E u \in UserInputs : TurnStart(u)
    \/ TurnPlanReturn
    \/ DispatchToolCall
    \/ Respond
    \/ RespondReturn

TurnSpec == Init /\ [][TurnNext]_vars

-----------------------------------------------------------------------------
(* The PolicyEngine evaluated directly, over profiles around every threshold *)

PolicyAmounts ==
    {250, 30000, 30001, 30014, 40000, 50000, 50010, 60000, 60001, 60009, 60030,
     100000, 100001, 120000}
PolicyDaysLate == {0, 10, 15, 16, 20, 30, 31}
PolicyRiskScores == {10, 20, 30, 31, 65, 66}

PolicyProfiles ==
    {Profile("C100", a, d, h, r, TRUE) :
        a \in PolicyAmounts, d \in PolicyDaysLate, h \in PaymentHistories,
        r \in PolicyRiskScores}

EvalPaymentPlanEligibility ==
    /\ policy_out' = [fn |-> "check_payment_plan_eligibility",
                      result |-> check_payment_plan_eligibility(customer)]
    /\ evaluations' = Evaluated(evaluations, "check_payment_plan_eligibility",
                                customer, check_payment_plan_eligibility(customer))
    /\ UNCHANGED <<customer, conversation_history, log, pc, tool_calls, idx,
                   agent_response, llm_request, llm_calls, llm_failed, llm_replies, dispatched,
                   turn_base, arg_user_input, turns, requested, returned, files, saves, session, st>>

EvalSettlementDiscount ==
    /\ policy_out' = [fn |-> "check_immediate_settlement_discount",
                      result |-> check_immediate_settlement_discount(customer)]
    /\ evaluations' = Evaluated(evaluations, "check_immediate_settlement_discount",
                                customer, check_immediate_settlement_discount(customer))
    /\ UNCHANGED <<customer, conversation_history, log, pc, tool_calls, idx,
                   agent_response, llm_request, llm_calls, llm_failed, llm_replies, dispatched,
                   turn_base, arg_user_input, turns, requested, returned, files, saves, session, st>>

\* EvalPaymentPlanTerms clearing the balance of the profile it was given
EvalPaymentPlanTerms_Clearing ==
    /\ policy_out' = [fn |-> "calculate_payment_plan_terms",
                      result |-> calculate_payment_plan_terms(customer)]
    /\ evaluations' = Evaluated(evaluations, "calculate_payment_plan_terms",
                                customer, calculate_payment_plan_terms(customer))
    /\ customer' = [customer EXCEPT !.amount_due = 0]
    /\ UNCHANGED <<conversation_history, log, pc, tool_calls, idx,
                   agent_response, llm_request, llm_calls, llm_failed, llm_replies, dispatched,
                   turn_base, arg_user_input, turns, requested, returned, files, saves, session, st>>

EvalPaymentPlanTerms ==
    /\ policy_out' = [fn |-> "calculate_payment_plan_terms",
                      result |-> calculate_payment_plan_terms(customer)]
    /\ evaluations' = Evaluated(evaluations, "calculate_payment_plan_terms",
                                customer, calculate_payment_plan_terms(customer))
    /\ UNCHANGED <<customer, conversation_history, log, pc, tool_calls, idx,
                   agent_response, llm_request, llm_calls, llm_failed, llm_replies, dispatched,
                   turn_base, arg_user_input, turns, requested, returned, files, saves, session, st>>

EvalSettlementTerms ==
    /\ policy_out' = [fn |-> "calculate_settlement_discount",
                      result |-> calculate_settlement_discount(customer)]
    /\ evaluations' = Evaluated(evaluations, "calculate_settlement_discount",
                                customer, calculate_settlement_discount(customer))
    /\ UNCHANGED <<customer, conversation_history, log, pc, tool_calls, idx,
                   agent_response, llm_request, llm_calls, llm_failed, llm_replies, dispatched,
                   turn_base, arg_user_input, turns, requested, returned, files, saves, session, st>>

PolicyInit ==
    /\ customer \in PolicyProfiles
    /\ InitAgent
    /\ st = NoFrontEnd

PolicyNext ==
    \/ EvalPaymentPlanEligibility
    \/ EvalSettlementDiscount
    \/ EvalPaymentPlanTerms
    \/ EvalSettlementTerms

PolicySpec == PolicyInit /\ [][PolicyNext]_vars

-----------------------------------------------------------------------------
(* The ToolRegistry's policy handlers called directly, over the same profiles *)

\* the handlers that take no argument
PolicyTools ==
    {"check_payment_plan_eligibility", "get_payment_plan_options",
     "check_settlement_discount_eligibility", "get_settlement_discount_details"}

\* self.tools[name]() on the registry bound to the customer
CallTool(name) ==
    /\ policy_out' = [fn |-> name, result |-> RunTool(customer, name, {})]
    /\ evaluations' = ToolEvaluations(evaluations, customer, name)
    /\ UNCHANGED <<customer, conversation_history, log, pc, tool_calls, idx,
                   agent_response, llm_request, llm_calls, llm_failed, llm_replies,
                   dispatched, arg_user_input, turn_base, turns, requested, returned,
                   files, saves, session, st>>

RegistryNext == \E name \in PolicyTools : CallTool(name)

RegistrySpec == PolicyInit /\ [][RegistryNext]_vars

-----------------------------------------------------------------------------
(* The PolicyEngine evaluated at any moment of a turn of the agent *)

EngineNext ==
    \/ \E u \in UserInputs : TurnStart(u)
    \/ PlanReturn
    \/ DispatchToolCall
    \/ Respond
    \/ RespondReturn
    \/ EvalPaymentPlanEligibility
    \/ EvalSettlementDiscount
    \/ EvalPaymentPlanTerms
    \/ EvalSettlementTerms

EngineSpec == Init /\ [][EngineNext]_vars

-----------------------------------------------------------------------------
(* Persisting the transcript *)

\* Most presses of the Save Conversation button.
MaxSaves == 1

\* save_to_file forgetting to ask for consent
save_to_file_Unasked(c, lg, written) ==
    Append(written, [customer_id |-> c.id, customer_name |-> c.name,
                     retention_days |-> c.transcript_retention_days, messages |-> lg])

\* ConversationLogger.save_to_file: the files written so far and the record
\* written now (conversation_date and the file's name are left out)
save_to_file(c, lg, written) ==
    IF ~c.consent_to_store_transcript
    THEN written
    ELSE Append(written, [customer_id |-> c.id, customer_name |-> c.name,
                          retention_days |-> c.transcript_retention_days,
                          messages |-> lg])

\* FinancialAgent.save_conversation
save_conversation ==
    /\ files' = save_to_file(customer, log, files)
    /\ saves' = saves + 1

-----------------------------------------------------------------------------
(* The front end: the buttons of streamlit_app.py acting on st.session_state *)

\* texts of the quick-response buttons and the text input (never empty)
FrontEndInputs == {"What payment plans are available for me?"}

\* what the responder requests of an agent behind a front end: nothing, a call
\* that succeeds or a call whose binding fails
DriverToolCallLists ==
    {<<>>} \cup
    (IF requested < MaxRequested
     THEN {<<[id |-> "call_1", name |-> "check_payment_plan_eligibility",
              arguments |-> "{}"]>>,
           <<[id |-> "call_1", name |-> "escalate_to_human", arguments |-> "{}"]>>}
     ELSE {})

DriverPlanReturn == PlanReturnFrom(DriverToolCallLists)

\* the Start Conversation button: start_conversation up to sense_plan_act
StartConversation ==
    /\ st.handler = "none"
    /\ st.agent # 0
    /\ ~st.conversation_started
    /\ turns < MaxTurns
    /\ SensePlanAct(None)
    /\ st' = [st EXCEPT !.handler = "start"]
    /\ UNCHANGED session

\* a quick-response button or Send: send_message up to sense_plan_act
SendMessage(user_input) ==
    /\ st.handler = "none"
    /\ st.agent # 0
    /\ st.conversation_started
    /\ turns < MaxTurns
    /\ SensePlanAct(user_input)
    /\ st' = [st EXCEPT !.handler = "send",
                        !.messages = Append(@, [role |-> "customer",
                                                content |-> user_input])]
    /\ UNCHANGED session

\* sense_plan_act has returned to start_conversation or send_message
HandlerReturn ==
    /\ st.handler # "none"
    /\ pc = "idle"
    /\ st' = [st EXCEPT !.handler = "none",
                        !.messages = Append(@, [role |-> "agent", content |-> returned]),
                        !.conversation_started = (@ \/ st.handler = "start")]
    /\ UNCHANGED <<customer, conversation_history, log, pc, tool_calls, idx,
                   agent_response, llm_request, llm_calls, llm_failed, llm_replies, dispatched,
                   turn_base, arg_user_input, turns, requested, returned, policy_out, evaluations,
                   files, saves, session>>

\* sense_plan_act has raised: the script run ends with the exception shown
HandlerRaise ==
    /\ st.handler # "none"
    /\ pc = "raised"
    /\ st' = [st EXCEPT !.handler = "none"]
    /\ UNCHANGED <<customer, conversation_history, log, pc, tool_calls, idx,
                   agent_response, llm_request, llm_calls, llm_failed, llm_replies, dispatched,
                   turn_base, arg_user_input, turns, requested, returned, policy_out, evaluations,
                   files, saves, session>>

\* the Save Conversation button
SaveButton ==
    /\ st.handler = "none"
    /\ st.agent # 0
    /\ st.conversation_started
    /\ saves < MaxSaves
    /\ save_conversation
    /\ UNCHANGED <<customer, conversation_history, log, pc, tool_calls, idx,
                   agent_response, llm_request, llm_calls, llm_failed, llm_replies, dispatched,
                   turn_base, arg_user_input, turns, requested, returned, policy_out, evaluations,
                   session, st>>

\* ResetButton discarding the agent's history along with the display
ResetButton_ClearingHistory ==
    /\ st.handler = "none"
    /\ st.conversation_started
    /\ st' = [st EXCEPT !.conversation_started = FALSE, !.messages = <<>>]
    /\ conversation_history' = <<>>
    /\ UNCHANGED <<customer, log, pc, tool_calls, idx,
                   agent_response, llm_request, llm_calls, llm_failed, llm_replies, dispatched,
                   turn_base, arg_user_input, turns, requested, returned, policy_out, evaluations,
                   files, saves, session>>

\* the Reset Conversation button
ResetButton ==
    /\ st.handler = "none"
    /\ st.conversation_started
    /\ st' = [st EXCEPT !.conversation_started = FALSE, !.messages = <<>>]
    /\ UNCHANGED <<customer, conversation_history, log, pc, tool_calls, idx,
                   agent_response, llm_request, llm_calls, llm_failed, llm_replies, dispatched,
                   turn_base, arg_user_input, turns, requested, returned, policy_out, evaluations,
                   files, saves, session>>

AppNext ==
    \/ StartConversation
    \/ \E u \in FrontEndInputs : SendMessage(u)
    \/ DriverPlanReturn
    \/ DispatchToolCall
    \/ Respond
    \/ RespondReturn
    \/ HandlerReturn
    \/ HandlerRaise
    \/ SaveButton
    \/ ResetButton

\* the Initialize Agent button has been pressed, for any of the customers
AppInit ==
    /\ customer \in Customers
    /\ InitAgent
    /\ st = [NoFrontEnd EXCEPT !.agent = 1]

AppSpec == AppInit /\ [][AppNext]_vars

-----------------------------------------------------------------------------
(* The front end from the first page load: agents are created by a button *)

\* Most agents created by the Initialize Agent button.
MaxAgents == 2

\* initialize_agent: a new FinancialAgent for the selected customer, the
\* display emptied
InitializeAgent(c) ==
    /\ st.handler = "none"
    /\ st.agent < MaxAgents
    /\ customer' = c
    /\ conversation_history' = <<>>
    /\ log' = <<>>
    /\ pc' = "idle"
    /\ tool_calls' = <<>>
    /\ idx' = 0
    /\ agent_response' = None
    /\ llm_request' = NoRequest
    /\ llm_calls' = 0
    /\ llm_failed' = <<>>
    /\ llm_replies' = <<>>
    /\ dispatched' = 0
    /\ arg_user_input' = None
    /\ turn_base' = 0
    /\ turns' = 0
    /\ requested' = 0
    /\ returned' = None
    /\ st' = [agent |-> st.agent + 1, conversation_started |-> FALSE,
              messages |-> <<>>, handler |-> "none"]
    /\ UNCHANGED <<policy_out, evaluations, files, saves, session>>

PageNext ==
    \/ \E c \in Customers : InitializeAgent(c)
    \/ StartConversation
    \/ \E u \in FrontEndInputs : SendMessage(u)
    \/ DriverPlanReturn
    \/ DispatchToolCall
    \/ Respond
    \/ RespondReturn
    \/ HandlerReturn
    \/ HandlerRaise
    \/ ResetButton

PageSpec == Init /\ [][PageNext]_vars

-----------------------------------------------------------------------------
(* The command line: run_conversation *)

\* Largest max_turns run_conversation is called with.
MaxRunTurns == 2

\* Most lines read from the customer in one run.
MaxReads == 3

UpperCase == "ABCDEFGHIJKLMNOPQRSTUVWXYZ"
LowerCase == "abcdefghijklmnopqrstuvwxyz"

LowerChar(ch) ==
    IF \E i \in 1..Len(UpperCase) : SubSeq(UpperCase, i, i) = ch
    THEN LET i == CHOOSE j \in 1..Len(UpperCase) : SubSeq(UpperCase, j, j) = ch
         IN  SubSeq(LowerCase, i, i)
    ELSE ch

\* str.lower() on ASCII text
RECURSIVE Lower(_)
Lower(s) ==
    IF Len(s) = 0 THEN ""
    ELSE LowerChar(SubSeq(s, 1, 1)) \o Lower(SubSeq(s, 2, Len(s)))

Whitespace == {" ", "\t", "\n"}

RECURSIVE LStrip(_)
LStrip(s) ==
    IF Len(s) > 0 /\ SubSeq(s, 1, 1) \in Whitespace
    THEN LStrip(SubSeq(s, 2, Len(s)))
    ELSE s

RECURSIVE RStrip(_)
RStrip(s) ==
    IF Len(s) > 0 /\ SubSeq(s, Len(s), Len(s)) \in Whitespace
    THEN RStrip(SubSeq(s, 1, Len(s) - 1))
    ELSE s

\* str.strip()
Strip(s) == RStrip(LStrip(s))

\* sub in text
Contains(text, sub) ==
    \E i \in 1..(Len(text) - Len(sub) + 1) : SubSeq(text, i, i + Len(sub) - 1) = sub

ExitKeywords == {"exit", "quit", "bye", "goodbye"}

\* "escalate" in agent_msg.lower() or "transfer" in agent_msg.lower()
HasEscalationMarker(agent_msg) ==
    Contains(Lower(agent_msg), "escalate") \/ Contains(Lower(agent_msg), "transfer")

\* lines the customer types at the prompt
CliInputs ==
    {"exit", " QUIT", "Bye ", "goodbye", "", "  ", "I cannot pay this month."}

\* run_conversation returns (or an exception leaves it) on the given path
Terminated(path, result) ==
    [session EXCEPT !.pc = "done", !.path = path, !.result = result]

\* run_conversation is entered: the agent is built and start_conversation
\* calls sense_plan_act()
RunConversation(max_turns) ==
    /\ session.pc = "none"
    /\ SensePlanAct(None)
    /\ session' = [NoSession EXCEPT !.pc = "opening", !.max_turns = max_turns]
    /\ UNCHANGED st

\* start_conversation returns: the opening is printed, turn_count = 0
OpeningReturn ==
    /\ session.pc = "opening"
    /\ pc = "idle"
    /\ session' = [session EXCEPT !.pc = "loop", !.turn_count = 0]
    /\ UNCHANGED <<customer, conversation_history, log, pc, tool_calls, idx,
                   agent_response, llm_request, llm_calls, llm_failed, llm_replies, dispatched,
                   turn_base, arg_user_input, turns, requested, returned, policy_out, evaluations,
                   files, saves, st>>

\* ReadInput entering the loop body once more when the count is used up
ReadInput_OneMore(raw) ==
    /\ session.pc = "loop"
    /\ session.turn_count <= session.max_turns
    /\ session.reads < MaxReads
    /\ LET user_input == Strip(raw)
           read == [session EXCEPT !.reads = @ + 1]
       IN  IF Lower(user_input) \in ExitKeywords
           THEN /\ save_conversation
                /\ session' = [read EXCEPT !.pc = "done", !.path = "exit",
                                           !.result = "True"]
                /\ UNCHANGED <<conversation_history, log, pc, tool_calls, idx,
                               agent_response, llm_request, llm_calls, llm_failed, llm_replies,
                               dispatched, turn_base, arg_user_input, turns, returned>>
           ELSE IF user_input = ""
           THEN /\ session' = read
                /\ UNCHANGED <<conversation_history, log, pc, tool_calls, idx,
                               agent_response, llm_request, llm_calls, llm_failed, llm_replies,
                               dispatched, turn_base, arg_user_input, turns, returned, files, saves>>
           ELSE /\ SensePlanAct(user_input)
                /\ session' = [read EXCEPT !.pc = "turn", !.processed = @ + 1]
    /\ UNCHANGED <<customer, requested, policy_out, evaluations, st>>

\* one pass of the loop up to the call of sense_plan_act: the line is read,
\* an exit keyword saves and returns True, an empty line continues
ReadInput(raw) ==
    /\ session.pc = "loop"
    /\ session.turn_count < session.max_turns
    /\ session.reads < MaxReads
    /\ LET user_input == Strip(raw)
           read == [session EXCEPT !.reads = @ + 1]
       IN  IF Lower(user_input) \in ExitKeywords
           THEN /\ save_conversation
                /\ session' = [read EXCEPT !.pc = "done", !.path = "exit",
                                           !.result = "True"]
                /\ UNCHANGED <<conversation_history, log, pc, tool_calls, idx,
                               agent_response, llm_request, llm_calls, llm_failed, llm_replies,
                               dispatched, turn_base, arg_user_input, turns, returned>>
           ELSE IF user_input = ""
           THEN /\ session' = read
                /\ UNCHANGED <<conversation_history, log, pc, tool_calls, idx,
                               agent_response, llm_request, llm_calls, llm_failed, llm_replies,
                               dispatched, turn_base, arg_user_input, turns, returned, files, saves>>
           ELSE /\ SensePlanAct(user_input)
                /\ session' = [read EXCEPT !.pc = "turn", !.processed = @ + 1]
    /\ UNCHANGED <<customer, requested, policy_out, evaluations, st>>

\* input() raises EOFError or KeyboardInterrupt: save, return True
ReadInterrupt ==
    /\ session.pc = "loop"
    /\ session.turn_count < session.max_turns
    /\ session.reads < MaxReads
    /\ save_conversation
    /\ session' = [session EXCEPT !.reads = @ + 1, !.pc = "done",
                                  !.path = "interrupt", !.result = "True"]
    /\ UNCHANGED <<customer, conversation_history, log, pc, tool_calls, idx,
                   agent_response, llm_request, llm_calls, llm_failed, llm_replies, dispatched,
                   turn_base, arg_user_input, turns, requested, returned, policy_out, evaluations, st>>

\* sense_plan_act(user_input) returns: a marker in the text breaks out of the
\* loop (save, return False); otherwise the turn is counted
TurnReturn ==
    /\ session.pc = "turn"
    /\ pc = "idle"
    /\ IF HasEscalationMarker(returned)
       THEN /\ save_conversation
            /\ session' = [session EXCEPT !.pc = "done", !.escalated = TRUE,
                                          !.path = "escalation", !.result = "False"]
       ELSE /\ session' = [session EXCEPT !.pc = "loop", !.turn_count = @ + 1]
            /\ UNCHANGED <<files, saves>>
    /\ UNCHANGED <<customer, conversation_history, log, pc, tool_calls, idx,
                   agent_response, llm_request, llm_calls, llm_failed, llm_replies, dispatched,
                   turn_base, arg_user_input, turns, requested, returned, policy_out, evaluations, st>>

\* while turn_count < max_turns is false: save, return False
LoopExit ==
    /\ session.pc = "loop"
    /\ session.turn_count >= session.max_turns
    /\ save_conversation
    /\ session' = Terminated("max_turns", "False")
    /\ UNCHANGED <<customer, conversation_history, log, pc, tool_calls, idx,
                   agent_response, llm_request, llm_calls, llm_failed, llm_replies, dispatched,
                   turn_base, arg_user_input, turns, requested, returned, policy_out, evaluations, st>>

\* an exception raised in sense_plan_act leaves run_conversation, which has
\* no handler around its calls of the agent
TurnRaise ==
    /\ session.pc \in {"opening", "turn"}
    /\ pc = "raised"
    /\ session' = Terminated("exception", "raised")
    /\ UNCHANGED <<customer, conversation_history, log, pc, tool_calls, idx,
                   agent_response, llm_request, llm_calls, llm_failed, llm_replies, dispatched,
                   turn_base, arg_user_input, turns, requested, returned, policy_out, evaluations,
                   files, saves, st>>

\* Ctrl-C while sense_plan_act runs: KeyboardInterrupt is no Exception, so
\* _call_llm does not catch it, and neither does run_conversation
TurnInterrupt ==
    /\ session.pc \in {"opening", "turn"}
    /\ pc \in {"plan", "dispatch", "respond"}
    /\ pc' = "raised"
    /\ session' = Terminated("exception", "raised")
    /\ UNCHANGED <<customer, conversation_history, log, tool_calls, idx,
                   agent_response, llm_request, llm_calls, llm_failed, llm_replies, dispatched,
                   turn_base, arg_user_input, turns, requested, returned, policy_out, evaluations,
                   files, saves, st>>

CliNext ==
    \/ \E m \in 0..MaxRunTurns : RunConversation(m)
    \/ OpeningReturn
    \/ \E raw \in CliInputs : ReadInput(raw)
    \/ ReadInterrupt
    \/ DriverPlanReturn
    \/ DispatchToolCall
    \/ Respond
    \/ RespondReturn
    \/ TurnReturn
    \/ LoopExit
    \/ TurnRaise
    \/ TurnInterrupt

CliSpec == Init /\ [][CliNext]_vars

-----------------------------------------------------------------------------
(* Properties of the PolicyEngine (under PolicySpec) *)

\* C9: check_payment_plan_eligibility returns eligible = false exactly when
\* amount due > 1000, or days late > 30, or the history is poor, or the risk
\* score > 0.65; so amount = 1000, days late = 30 and risk = 0.65 are
\* eligible when nothing else fails.
C9_PaymentPlanEligibility ==
    policy_out.fn = "check_payment_plan_eligibility" =>
        (policy_out.result[1] = FALSE <=>
            \/ customer.amount_due > 100000
            \/ customer.days_late > 30
            \/ customer.payment_history = "poor"
            \/ customer.risk_score > 65)

C9_Witness ==
    /\ policy_out.fn = "check_payment_plan_eligibility"
    /\ customer.amount_due = 100000
    /\ customer.days_late = 30
    /\ customer.risk_score = 65
    /\ customer.payment_history = "average"
    /\ policy_out.result[1] = TRUE

\* C10: check_immediate_settlement_discount returns eligible = false exactly
\* when days late > 15, or the history is not good, or the risk score > 0.30;
\* its result is the same for every amount due; and the profile (days late
\* 20, history good, risk 0.1, amount 400) is refused the discount while
\* being eligible for a payment plan.
C10_SettlementEligibility ==
    policy_out.fn = "check_immediate_settlement_discount" =>
        /\ policy_out.result[1] = FALSE <=>
              \/ customer.days_late > 15
              \/ customer.payment_history # "good"
              \/ customer.risk_score > 30
        /\ \A a \in PolicyAmounts :
              check_immediate_settlement_discount([customer EXCEPT !.amount_due = a])
                  = policy_out.result
        /\ (/\ customer.days_late = 20
            /\ customer.payment_history = "good"
            /\ customer.risk_score = 10
            /\ customer.amount_due = 40000)
              => /\ policy_out.result[1] = FALSE
                 /\ check_payment_plan_eligibility(customer)[1] = TRUE

C10_Witness ==
    /\ policy_out.fn = "check_immediate_settlement_discount"
    /\ customer.days_late = 20
    /\ customer.payment_history = "good"
    /\ customer.risk_score = 10
    /\ customer.amount_due = 40000
    /\ policy_out.result[1] = FALSE
    /\ check_payment_plan_eligibility(customer)[1] = TRUE

-----------------------------------------------------------------------------
(* Properties of sense_plan_act *)

\* a call of sense_plan_act has ended: it returned, or an exception left it
TurnOver == turns > 0 /\ pc \in {"idle", "raised"}

IsCallsTurn(t) == t.role = "assistant" /\ "tool_calls" \in DOMAIN t

IsToolTurn(t) == t.role = "tool"

IsAgentTextTurn(t) == t.role = "assistant" /\ DOMAIN t = {"role", "content"}

IsRegisteredCall(tc) == tc.name \in RegisteredTools

\* the tool turns appended so far by the current call of sense_plan_act
ToolTurnsOfTurn ==
    SelectSeq(SubSeq(conversation_history, turn_base + 1, Len(conversation_history)),
              IsToolTurn)

LastTurn == conversation_history[Len(conversation_history)]

\* C1: a call of sense_plan_act whose first responder call returns no tool
\* call makes exactly one responder call; one whose first responder call
\* returns k >= 1 tool calls makes exactly two, whatever the calls are.
C1_ResponderCalls ==
    TurnOver => IF tool_calls = <<>> THEN llm_calls = 1 ELSE llm_calls = 2

\* C2: when the first responder call returns k >= 1 tool calls, exactly k
\* dispatches occur, in the order listed, and each appends its own tool turn,
\* in that order, carrying the identifier of its call.
C2_DispatchInOrder ==
    (TurnOver /\ tool_calls # <<>>) =>
        /\ dispatched = Len(tool_calls)
        /\ Len(ToolTurnsOfTurn) = Len(tool_calls)
        /\ \A i \in 1..Len(tool_calls) :
              /\ ToolTurnsOfTurn[i].tool_call_id = tool_calls[i].id
              /\ ToolTurnsOfTurn[i].name = tool_calls[i].name

\* C3: in a turn with tool calls the second responder call is made with tools
\* disabled, after the pending-calls turn and every tool turn of the turn are
\* in the conversation, and its request holds them all; the final agent turn
\* is appended only once that call has returned.
C3_SecondCallAfterToolTurns ==
    /\ pc = "dispatch" => llm_calls = 1
    /\ pc = "respond" =>
          LET m == llm_request.messages
              expected == SelectSeq(tool_calls, IsRegisteredCall)
              n == Len(expected)
          IN  /\ llm_request.use_tools = FALSE
              /\ llm_calls = 2
              /\ m = <<SystemPrompt(customer)>> \o conversation_history
              /\ Len(m) >= n + 2
              /\ IsCallsTurn(m[Len(m) - n])
              /\ Len(m[Len(m) - n].tool_calls) = Len(tool_calls)
              /\ \A i \in 1..Len(tool_calls) :
                    m[Len(m) - n].tool_calls[i].id = tool_calls[i].id
              /\ \A i \in 1..n :
                    /\ IsToolTurn(m[Len(m) - n + i])
                    /\ m[Len(m) - n + i].tool_call_id = expected[i].id
                    /\ m[Len(m) - n + i].name = expected[i].name
    /\ (pc = "idle" /\ tool_calls # <<>>) =>
          /\ Len(llm_failed) = 2
          /\ conversation_history =
                Tail(llm_request.messages) \o <<AgentTextTurn(returned)>>

C3_Witness ==
    /\ pc = "respond"
    /\ Len(tool_calls) = 2
    /\ dispatched = 1

\* The tool calls recorded in agent turns before position j whose identifier
\* is the one tool turn j carries, as <<turn, place in the turn>>.
MatchingCalls(j) ==
    LET h == conversation_history
        recorded == UNION {{i} \X DOMAIN h[i].tool_calls :
                              i \in {k \in 1..(j - 1) : IsCallsTurn(h[k])}}
    IN  {p \in recorded : h[p[1]].tool_calls[p[2]].id = h[j].tool_call_id}

ToolTurnPositions ==
    {j \in 1..Len(conversation_history) : IsToolTurn(conversation_history[j])}

\* every tool call recorded in the conversation carries its own identifier
IdentifiersDistinct ==
    LET h == conversation_history
        recorded == UNION {{i} \X DOMAIN h[i].tool_calls :
                              i \in {k \in 1..Len(h) : IsCallsTurn(h[k])}}
    IN  \A p, q \in recorded :
            h[p[1]].tool_calls[p[2]].id = h[q[1]].tool_calls[q[2]].id => p = q

\* C4 as stated: every tool turn's identifier matches exactly one tool call
\* recorded in an agent turn before it, whatever identifiers the responder
\* chooses.
C4_ExactlyOneCall ==
    \A j \in ToolTurnPositions : Cardinality(MatchingCalls(j)) = 1

\* C4 as amended: every tool turn's identifier matches at least one tool call
\* recorded in an agent turn before it (no tool turn is orphaned), and exactly
\* one when the responder has not repeated an identifier.
C4_NoOrphanToolTurn ==
    \A j \in ToolTurnPositions :
        /\ Cardinality(MatchingCalls(j)) >= 1
        /\ IdentifiersDistinct => Cardinality(MatchingCalls(j)) = 1

C4_Witness ==
    /\ Cardinality(ToolTurnPositions) = 2
    /\ IdentifiersDistinct
    /\ pc = "idle"

\* C5: a tool call naming no registered capability produces no tool turn and
\* does not abort the turn: the other calls are dispatched, the second
\* responder call is made and a final agent turn is appended.
C5_UnregisteredDropped ==
    (TurnOver /\ \E i \in 1..Len(tool_calls) : ~IsRegisteredCall(tool_calls[i])) =>
        /\ pc = "idle"
        /\ llm_calls = 2
        /\ IsAgentTextTurn(LastTurn)
        /\ \A i \in 1..Len(ToolTurnsOfTurn) : ToolTurnsOfTurn[i].name \in RegisteredTools
        /\ Len(ToolTurnsOfTurn) = Len(SelectSeq(tool_calls, IsRegisteredCall))

\* a call to a registered capability whose payload does not parse or does not
\* bind to the handler's parameters
HasBindingFailure(tc) ==
    LET parsed == IF tc.arguments # "" THEN JsonLoads(tc.arguments) ELSE EmptyObject
    IN  IsRegisteredCall(tc) /\ (parsed.raises \/ BindingFails(tc.name, parsed))

\* C6: a binding failure of a call to a registered capability is caught and
\* recorded as an error tool turn correlated to the call, and the turn goes on
\* to its final agent turn instead of ending in an exception.
C6_BindingFailureCaught ==
    \A i \in 1..Len(tool_calls) :
        (HasBindingFailure(tool_calls[i]) /\ (i < idx \/ (i = idx /\ pc = "raised"))) =>
            /\ pc # "raised"
            /\ \E k \in 1..Len(ToolTurnsOfTurn) :
                  ToolTurnsOfTurn[k].tool_call_id = tool_calls[i].id

\* C7: a failed first responder call does not raise and ends the turn with no
\* dispatch and no second responder call; a failed second responder call does
\* not raise either, and the turn completes.
C7_ResponderFailureContained ==
    /\ (Len(llm_failed) >= 1 /\ llm_failed[1]) =>
          /\ pc = "idle"
          /\ llm_calls = 1
          /\ dispatched = 0
          /\ tool_calls = <<>>
          /\ IsAgentTextTurn(LastTurn)
          /\ returned = LastTurn.content
    /\ (Len(llm_failed) = 2 /\ llm_failed[2]) =>
          /\ pc = "idle"
          /\ llm_calls = 2
          /\ IsAgentTextTurn(LastTurn)
          /\ returned = LastTurn.content

C7_Witness ==
    /\ llm_failed = <<TRUE>>
    /\ turns = 2
    /\ pc = "idle"
    /\ returned = "Error calling LLM: Connection error."

\* C8: a responder call failure is a diagnostic value distinguishable from
\* model content: it is never appended or returned as an ordinary agent text
\* turn.
C8_FailureDistinguishable ==
    (pc = "idle" /\ llm_failed # <<>> /\ llm_failed[Len(llm_failed)]) =>
        ~IsAgentTextTurn(LastTurn)

-----------------------------------------------------------------------------
(* Properties of the reason texts and of the terms (under PolicySpec) *)

\* the places where text sub occurs in text s
Occurrences(s, sub) ==
    {i \in 1..(Len(s) - Len(sub) + 1) : SubSeq(s, i, i + Len(sub) - 1) = sub}

Count(s, sub) == Cardinality(Occurrences(s, sub))

\* the first place where sub occurs in s (only used where it occurs)
Place(s, sub) == CHOOSE i \in Occurrences(s, sub) : \A k \in Occurrences(s, sub) : i <= k

\* the fragments named by `marks` occur in s in the order of `marks`
RECURSIVE InOrder(_, _)
InOrder(s, marks) ==
    \/ Len(marks) <= 1
    \/ /\ Place(s, marks[1]) < Place(s, marks[2])
       /\ InOrder(s, Tail(marks))

\* the texts of <<text, fails>> pairs whose condition fails, in their order
Failing(pairs) ==
    LET keep == SelectSeq(pairs, LAMBDA p : p[2])
    IN  [i \in 1..Len(keep) |-> keep[i][1]]

\* The reason text holds exactly one fragment per failing pair, none for the
\* others, in the order of the pairs, the fragments joined by " and ".
ReasonReports(reason, pairs) ==
    /\ \A i \in 1..Len(pairs) : Count(reason, pairs[i][1]) = (IF pairs[i][2] THEN 1 ELSE 0)
    /\ InOrder(reason, Failing(pairs))
    /\ Count(reason, " and ") = Len(Failing(pairs)) - 1

\* C11: for both eligibility predicates and every ineligible profile the
\* reason holds one fragment for every failing condition, each with the
\* offending value, none for a condition that holds, in the order amount,
\* days late, history, risk (days late, history, risk for the settlement).
C11_AllReasonsInOrder ==
    /\ (policy_out.fn = "check_payment_plan_eligibility" /\ ~policy_out.result[1]) =>
          ReasonReports(policy_out.result[2],
              <<<<"balance exceeds EUR1,000 (current: EUR" \o Fmt2f(customer.amount_due) \o ")",
                  customer.amount_due > 100000>>,
                <<"overdue by more than 30 days (current: "
                      \o ToString(customer.days_late) \o " days)",
                  customer.days_late > 30>>,
                <<"payment history is classified as poor",
                  customer.payment_history = "poor">>,
                <<"risk score is too high (current: " \o Fmt2f(customer.risk_score) \o ")",
                  customer.risk_score > 65>> >>)
    /\ (policy_out.fn = "check_immediate_settlement_discount" /\ ~policy_out.result[1]) =>
          ReasonReports(policy_out.result[2],
              <<<<"overdue by more than 15 days (current: "
                      \o ToString(customer.days_late) \o " days)",
                  customer.days_late > 15>>,
                <<"payment history must be 'good'",
                  customer.payment_history # "good">>,
                <<"risk score exceeds 0.30 (current: " \o Fmt2f(customer.risk_score) \o ")",
                  customer.risk_score > 30>> >>)

C11_Witness ==
    /\ policy_out.fn = "check_payment_plan_eligibility"
    /\ customer.amount_due = 120000
    /\ customer.days_late = 31
    /\ customer.payment_history = "poor"
    /\ customer.risk_score = 66
    /\ policy_out.result =
          <<FALSE, "balance exceeds EUR1,000 (current: EUR1200.00) and payment is overdue by more than 30 days (current: 31 days) and payment history is classified as poor and risk score is too high (current: 0.66)">>

\* C12: calculate_payment_plan_terms returns None exactly when
\* check_payment_plan_eligibility is false for the profile, and
\* calculate_settlement_discount returns None exactly when
\* check_immediate_settlement_discount is false: no terms for an ineligible
\* customer.
C12_TermsOnlyWhenEligible ==
    /\ policy_out.fn = "calculate_payment_plan_terms" =>
          (Len(policy_out.result) = 0 <=> ~check_payment_plan_eligibility(customer)[1])
    /\ policy_out.fn = "calculate_settlement_discount" =>
          (Len(policy_out.result) = 0 <=> ~check_immediate_settlement_discount(customer)[1])

C12_Witness ==
    /\ policy_out.fn = "calculate_payment_plan_terms"
    /\ customer.amount_due = 100001
    /\ customer.days_late = 0
    /\ customer.payment_history = "good"
    /\ customer.risk_score = 10
    /\ policy_out.result = Absent

\* C13: for every payment-plan-eligible profile the installment count is 3
\* when amount due <= 300, 4 when 300 < amount due <= 600 and 6 otherwise; the
\* monthly payment is amount due / count rounded to 2 decimals (a cent value
\* within half a cent of the quotient); the total amount is amount due
\* unchanged; amount 500 gives 4 installments of 125.00.
C13_PaymentPlanTerms ==
    (policy_out.fn = "calculate_payment_plan_terms" /\ Len(policy_out.result) = 1) =>
        LET terms == policy_out.result[1]
            amount == customer.amount_due
            n == terms.installments
            off == terms.monthly_payment * n - amount
        IN  /\ n = (IF amount <= 30000 THEN 3 ELSE IF amount <= 60000 THEN 4 ELSE 6)
            /\ n \in {3, 4, 6}
            /\ 2 * off <= n
            /\ 2 * off >= 0 - n
            /\ terms.total_amount = amount
            /\ amount = 50000 => (n = 4 /\ terms.monthly_payment = 12500)

C13_Witness ==
    /\ policy_out.fn = "calculate_payment_plan_terms"
    /\ customer.amount_due = 30014
    /\ policy_out.result =
          Some([installments |-> 4, monthly_payment |-> 7503, total_amount |-> 30014])

\* C14: for every settlement-eligible profile the discount rate is 5%, the
\* discount amount is 5% of the amount due rounded to 2 decimals (a cent value
\* within half a cent of it), and the final amount is the amount due minus
\* that rounded discount, so that discount amount + final amount is the
\* original amount.
C14_SettlementTerms ==
    (policy_out.fn = "calculate_settlement_discount" /\ Len(policy_out.result) = 1) =>
        LET offer == policy_out.result[1]
            amount == customer.amount_due
            off == offer.discount_amount * 100 - amount * 5
        IN  /\ offer.discount_rate = 5
            /\ 2 * off <= 100
            /\ 2 * off >= 0 - 100
            /\ offer.final_amount = amount - offer.discount_amount
            /\ offer.discount_amount + offer.final_amount = offer.original_amount

-----------------------------------------------------------------------------
(* Purity of the PolicyEngine (under EngineSpec) *)

\* C15: the PolicyEngine is pure: however often and in whatever order the two
\* predicates and the two calculators are evaluated, directly or by a tool
\* dispatched in a turn, each gave one and the same result every time, and
\* the profile every evaluation was given is the customer's profile as it
\* still is: no field was changed.
C15_PolicyEnginePure ==
    \A f \in PolicyFunctions :
        /\ \A e \in evaluations[f] : e[1] = customer
        /\ Cardinality(evaluations[f]) <= 1

C15_Witness ==
    /\ pc = "dispatch"
    /\ dispatched = 1
    /\ idx = 2
    /\ Len(tool_calls) = 2
    /\ policy_out.fn = "check_payment_plan_eligibility"
    /\ \A f \in PolicyFunctions : evaluations[f] # {}
    /\ conversation_history[Len(conversation_history)].role = "tool"
    /\ conversation_history[Len(conversation_history)].content =
          JsonDumps([eligible |-> policy_out.result[1], reason |-> policy_out.result[2],
                     customer_id |-> customer.id])

-----------------------------------------------------------------------------
(* The conversation and its transcript under the front end (under AppSpec) *)

IsPrefix(a, b) == Len(a) <= Len(b) /\ SubSeq(b, 1, Len(a)) = a

\* C16: the conversation is append-only: whatever is done to one agent (the
\* proactive start, a customer turn with or without tool calls, a responder
\* failure, a save, the front end's reset), the history before the step is a
\* prefix of the history after it.
C16_AppendOnly ==
    [][st.agent' = st.agent => IsPrefix(conversation_history, conversation_history')]_vars

C16_Witness ==
    /\ st.conversation_started
    /\ st.handler = "none"
    /\ Len(st.messages) = 1
    /\ turns = 2
    /\ saves = 1
    /\ conversation_history = <<AgentTextTurn(""), AgentTextTurn("")>>

\* C17: for a customer who has not consented, whatever turns and saves were
\* made, no transcript record exists and the logger holds no message; every
\* record that exists belongs to a consenting customer and carries the
\* customer's id, name and retention period and the messages logged up to the
\* save, in order.
C17_ConsentGatesTranscript ==
    /\ ~customer.consent_to_store_transcript => (files = <<>> /\ log = <<>>)
    /\ \A i \in 1..Len(files) :
          /\ customer.consent_to_store_transcript
          /\ files[i].customer_id = customer.id
          /\ files[i].customer_name = customer.name
          /\ files[i].retention_days = customer.transcript_retention_days
          /\ IsPrefix(files[i].messages, log)

C17_Witness ==
    /\ ~customer.consent_to_store_transcript
    /\ saves = 1
    /\ turns = 2
    /\ pc = "idle"
    /\ Len(conversation_history) = 3
    /\ conversation_history[2].role = "user"

-----------------------------------------------------------------------------
(* Sessions of run_conversation (under CliSpec) *)

\* customer turns in a history
CustomerTurns(history) ==
    Cardinality({i \in DOMAIN history : history[i].role = "user"})

\* C18: a session of run_conversation puts at most max_turns customer turns
\* through sense_plan_act (the opening is not one of them), and once
\* turn_count has reached max_turns its next step is to terminate: no line is
\* read, nothing is appended, no responder call is made.
C18_AtMostMaxTurns ==
    [][/\ session'.processed <= session'.max_turns
       /\ CustomerTurns(conversation_history') = session'.processed
       /\ (session.pc = "loop" /\ session.turn_count >= session.max_turns) =>
             /\ session'.pc = "done"
             /\ session'.reads = session.reads
             /\ conversation_history' = conversation_history
             /\ llm_request' = llm_request]_vars

C18_Witness ==
    /\ session.pc = "done"
    /\ session.path = "max_turns"
    /\ session.max_turns = 2
    /\ session.processed = 2
    /\ session.reads = 2
    /\ saves = 1

\* C19: an exit keyword (any case) ends the session without being sent to the
\* responder, and save_conversation is called exactly once, before the
\* session terminates; the same on every other path on which run_conversation
\* terminates.
C19_SavedOnceOnEveryPath ==
    /\ saves = (IF session.pc = "done" THEN 1 ELSE 0)
    /\ \A i \in DOMAIN conversation_history :
          conversation_history[i].role = "user" =>
              Lower(Strip(conversation_history[i].content)) \notin ExitKeywords

\* C20: the session is Escalated exactly when the final agent text of one of
\* its turns holds "escalate" or "transfer" in any case, and an Escalated
\* session has terminated: no further line is read, no further responder call
\* is made.
C20_EscalatedIffMarker ==
    /\ (session.pc \in {"loop", "done"} /\ session.path # "exception") =>
          (session.escalated <=>
              \E i \in DOMAIN conversation_history :
                  /\ IsAgentTextTurn(conversation_history[i])
                  /\ HasEscalationMarker(conversation_history[i].content))
    /\ session.escalated => session.pc = "done"

-----------------------------------------------------------------------------
(* The capabilities advertised to the responder (under TurnSpec) *)

\* C21: on the tools-enabled responder call the advertised capability list
\* is exactly the registry's set of six: every registered handler name is
\* advertised and every advertised name has a registered handler.
C21_AdvertisedIsRegistry ==
    llm_request.use_tools =>
        /\ llm_request.tools = RegisteredTools
        /\ Cardinality(llm_request.tools) = 6

-----------------------------------------------------------------------------
(* What a completed call of sense_plan_act leaves behind (under Spec) *)

\* the turns the current call of sense_plan_act has appended
TurnsOfCall == SubSeq(conversation_history, turn_base + 1, Len(conversation_history))

\* C22: a non-empty customer input is the customer turn appended before the
\* first responder call, which is sent the history including it; a
\* completed call of sense_plan_act has appended exactly one final agent text
\* turn, as the last turn, and returned its content: the content of responder
\* call #1 when that call requested no tool calls, of call #2 otherwise.
C22_FinalTurnReturned ==
    /\ pc = "plan" =>
          /\ llm_request.messages = Messages(customer, conversation_history)
          /\ TurnsOfCall = (IF Truthy(arg_user_input)
                            THEN <<UserTurn(arg_user_input)>> ELSE <<>>)
    /\ (pc = "idle" /\ turns > 0) =>
          /\ IsAgentTextTurn(LastTurn)
          /\ LastTurn.content = returned
          /\ Len(SelectSeq(TurnsOfCall, IsAgentTextTurn)) = 1
          /\ Len(llm_replies) = (IF llm_replies[1][2] = <<>> THEN 1 ELSE 2)
          /\ returned = llm_replies[Len(llm_replies)][1]
          /\ Truthy(arg_user_input) => TurnsOfCall[1] = UserTurn(arg_user_input)

C22_Witness ==
    /\ pc = "idle"
    /\ turns = 2
    /\ Truthy(arg_user_input)
    /\ Len(llm_replies) = 2
    /\ llm_replies[1][1] = "I will Transfer you to a human agent."
    /\ llm_replies[2][1] = ""
    /\ returned = ""
    /\ dispatched = 1

-----------------------------------------------------------------------------
(* The offers of the ToolRegistry (under RegistrySpec) *)

\* C23: for every profile get_payment_plan_options reports available = true
\* exactly when check_payment_plan_eligibility reports eligible = true, and
\* get_settlement_discount_details exactly when
\* check_settlement_discount_eligibility does; the payload holds the terms
\* (the discount) exactly when available is true and a reason exactly when
\* it is false.
C23_AvailableIffEligible ==
    /\ policy_out.fn = "get_payment_plan_options" =>
          /\ policy_out.result.available =
                RunTool(customer, "check_payment_plan_eligibility", {}).eligible
          /\ DOMAIN policy_out.result =
                (IF policy_out.result.available THEN {"available", "terms"}
                 ELSE {"available", "reason"})
    /\ policy_out.fn = "get_settlement_discount_details" =>
          /\ policy_out.result.available =
                RunTool(customer, "check_settlement_discount_eligibility", {}).eligible
          /\ DOMAIN policy_out.result =
                (IF policy_out.result.available THEN {"available", "discount"}
                 ELSE {"available", "reason"})

C23_Witness ==
    /\ policy_out.fn = "get_settlement_discount_details"
    /\ customer.amount_due = 40000
    /\ customer.days_late = 20
    /\ customer.payment_history = "good"
    /\ customer.risk_score = 10
    /\ policy_out.result =
          [available |-> FALSE,
           reason |-> "Not eligible because payment is overdue by more than 15 days (current: 20 days)"]
    /\ RunTool(customer, "get_payment_plan_options", {}).available

-----------------------------------------------------------------------------
(* The shape of the history between turns (under AppSpec) *)

\* index of the first customer turn after position i, or one past the end
NextCustomerTurn(history, i) ==
    IF \E j \in (i + 1)..Len(history) : history[j].role = "user"
    THEN CHOOSE j \in (i + 1)..Len(history) :
            /\ history[j].role = "user"
            /\ \A k \in (i + 1)..(j - 1) : history[k].role # "user"
    ELSE Len(history) + 1

\* C24: between turns, also after a turn that ended in a dispatch failure,
\* every customer turn is followed by exactly one final agent text turn
\* before the next customer turn, and every agent turn with pending tool
\* calls is followed by tool turns only and then a final agent text turn:
\* the history later turns are sent with holds no dangling customer turn and
\* no unanswered pending-calls turn.
C24_TurnsWellFormed ==
    pc \in {"idle", "raised"} =>
        \A i \in DOMAIN conversation_history :
            /\ conversation_history[i].role = "user" =>
                  Cardinality({k \in (i + 1)..(NextCustomerTurn(conversation_history, i) - 1) :
                                  IsAgentTextTurn(conversation_history[k])}) = 1
            /\ IsCallsTurn(conversation_history[i]) =>
                  \E j \in (i + 1)..Len(conversation_history) :
                      /\ IsAgentTextTurn(conversation_history[j])
                      /\ \A k \in (i + 1)..(j - 1) : IsToolTurn(conversation_history[k])

-----------------------------------------------------------------------------
(* The transcript against the history (under Spec) *)

IsSpoken(t) == t.role = "user" \/ IsAgentTextTurn(t)

\* the customer texts and final agent texts of a history, as log entries
Spoken(history) ==
    LET turns_spoken == SelectSeq(history, IsSpoken)
    IN  [i \in 1..Len(turns_spoken) |->
            [role |-> IF turns_spoken[i].role = "user" THEN "customer" ELSE "agent",
             content |-> turns_spoken[i].content]]

\* C25: for a consenting customer, after any sequence of completed turns the
\* logger's transcript is exactly the customer texts (role customer) and the
\* final agent texts (role agent) of the conversation history, in order; no
\* tool turn and no agent turn with pending tool calls is in it.
C25_TranscriptIsSpokenHistory ==
    (customer.consent_to_store_transcript /\ pc = "idle") =>
        log = Spoken(conversation_history)

C25_Witness ==
    /\ customer.consent_to_store_transcript
    /\ pc = "idle"
    /\ turns = 2
    /\ Len(conversation_history) = 5
    /\ IsCallsTurn(conversation_history[3])
    /\ IsToolTurn(conversation_history[4])
    /\ log = <<[role |-> "agent", content |-> ""],
               [role |-> "customer", content |-> "I cannot pay this month."],
               [role |-> "agent", content |-> "I will Transfer you to a human agent."]>>

-----------------------------------------------------------------------------
(* The display against the history (under PageSpec) *)

\* C26: in the front end, after any sequence of initialize, start, send and
\* reset, the displayed message list is the sequence of customer turns and
\* final agent turns of the current agent's conversation history: a reset
\* followed by a new start leaves no earlier turn in the history that the
\* display does not show.
C26_DisplayIsSpokenHistory ==
    st.handler = "none" => st.messages = Spoken(conversation_history)

====
